---- MODULE Spec2Model ----
(***************************************************************************)
(* Model of noel.py (fa-bien/partylights): HSV colours, the colour         *)
(* effects and the animation driver fun().                                 *)
(*                                                                         *)
(* Number representation.  The program computes with Python floats; the    *)
(* model computes with scaled integers:                                    *)
(*   - a hue H is an integer number of 1/HScale turns (H = 1.0 is HScale); *)
(*   - S, V and the values of random.random() are integers in 1/VScale;    *)
(*   - an angle (argument of math.sin, result of math.asin) is an integer  *)
(*     number of grid steps, Period steps to the full turn; math.sin is    *)
(*     the table SinTable, math.asin the nearest grid angle in the         *)
(*     principal range.  The dS/dV parameters of the effects are angles    *)
(*     and are given in grid steps.                                        *)
(***************************************************************************)
EXTENDS Integers, Sequences, FiniteSets, TLC

\* ------------------------------------------------------------------ bounds
MaxDevices == 3
MaxCalls == 11
MaxSpread == 5

\* ----------------------------------------------------------- number model
HScale == 60
VScale == 1000
TwoPiScaled == 6283

\* VScale * sin(2*pi*a/Period) for a = 0 .. Period-1
SinTable ==
  << 0, 259, 500, 707, 866, 966, 1000, 966, 866, 707, 500, 259,
     0, -259, -500, -707, -866, -966, -1000, -966, -866, -707, -500, -259 >>

Period == Len(SinTable)

Abs(x) == IF x < 0 THEN -x ELSE x

Min(a, b) == IF a < b THEN a ELSE b

\* round-to-nearest quotient of a non-negative numerator
RoundDiv(n, d) == (2 * n + d) \div (2 * d)

\* int(x) of Python: truncation toward zero of n/d, d > 0
Trunc(n, d) == IF n >= 0 THEN n \div d ELSE -((-n) \div d)

\* math.sin on the angle grid
Sin(a) == SinTable[(a % Period) + 1]

\* math.asin: the angle in [-pi/2, pi/2] whose sine is x (nearest grid angle)
Asin(x) ==
  LET Q == Period \div 4
      err(a) == Abs(Sin(a) - x)
  IN  CHOOSE a \in (-Q)..Q :
        \A b \in (-Q)..Q : err(a) < err(b) \/ (err(a) = err(b) /\ a <= b)

\* a float used directly as an angle in radians, on the angle grid
RadToGrid(v) == RoundDiv(v * Period, TwoPiScaled)

\* x % 1 on hues, in exact arithmetic (the float operation can also return
\* 1.0 when x is a negative rounding residue, which a grid value never is)
Mod1(h) == h % HScale

\* minX + Xrange * (1 + math.sin(a)) / 2.0
Wave(minX, range, a) == minX + (range * (VScale + Sin(a))) \div (2 * VScale)

\* -------------------------------------------------------- colour classes
\* HSVColour(H, S, V)
HSVColour(H, S, V) == [H |-> H, S |-> S, V |-> V]

\* Colour(red, green, blue, alpha=255)
Colour(red, green, blue) ==
  [red |-> red, green |-> green, blue |-> blue, alpha |-> 255]

\* outcome of getRGBAColour when no branch of the if-chain binds R, G, B
Unbound == [red |-> -1, green |-> -1, blue |-> -1, alpha |-> -1]

\* getRGBAColour with X = C * |H' mod 2 - 1|
getRGBAColour_XInverted(c) ==
  LET D      == VScale * VScale * (HScale \div 15)
      C      == c.V * c.S * HScale
      Hp     == 6 * c.H
      X      == c.V * c.S * Abs((Hp % (2 * HScale)) - HScale)
      m      == c.V * VScale * HScale - C
      mk(R, G, B) == Colour(Trunc((255 \div 15) * (R + m), D),
                            Trunc((255 \div 15) * (G + m), D),
                            Trunc((255 \div 15) * (B + m), D))
  IN  IF Hp < 1 * HScale THEN mk(C, X, 0)
      ELSE IF Hp < 2 * HScale THEN mk(X, C, 0)
      ELSE IF Hp < 3 * HScale THEN mk(0, C, X)
      ELSE IF Hp < 4 * HScale THEN mk(0, X, C)
      ELSE IF Hp < 5 * HScale THEN mk(X, 0, C)
      ELSE IF Hp < 6 * HScale THEN mk(C, 0, X)
      ELSE Unbound

\* HSVColour.getRGBAColour.  C, X, m are kept over the common denominator
\* VScale^2 * HScale; 255 and the denominator are both divided by 15 to keep
\* the products small.
getRGBAColour(c) ==
  LET D      == VScale * VScale * (HScale \div 15)
      C      == c.V * c.S * HScale
      Hp     == 6 * c.H
      X      == c.V * c.S * (HScale - Abs((Hp % (2 * HScale)) - HScale))
      m      == c.V * VScale * HScale - C
      mk(R, G, B) == Colour(Trunc((255 \div 15) * (R + m), D),
                            Trunc((255 \div 15) * (G + m), D),
                            Trunc((255 \div 15) * (B + m), D))
  IN  IF Hp < 1 * HScale THEN mk(C, X, 0)
      ELSE IF Hp < 2 * HScale THEN mk(X, C, 0)
      ELSE IF Hp < 3 * HScale THEN mk(0, C, X)
      ELSE IF Hp < 4 * HScale THEN mk(0, X, C)
      ELSE IF Hp < 5 * HScale THEN mk(X, 0, C)
      ELSE IF Hp < 6 * HScale THEN mk(C, 0, X)
      ELSE Unbound

\* generateSpreadColours counting the colours from 1
generateSpreadColours_FromOne(k, distance) ==
  LET d == IF distance = -HScale
           THEN RoundDiv(2 * HScale * 1000, 1000 + 2236)
           ELSE distance
  IN  [x \in 1..k |-> HSVColour(Mod1((6 * HScale) \div 10 + d * x),
                                (99 * VScale) \div 100,
                                (7 * VScale) \div 10)]

\* generateSpreadColours(k, distance); the distance -1 stands for
\* 2.0 / (1 + math.sqrt(5))
generateSpreadColours(k, distance) ==
  LET d == IF distance = -HScale
           THEN RoundDiv(2 * HScale * 1000, 1000 + 2236)
           ELSE distance
  IN  [x \in 1..k |-> HSVColour(Mod1((6 * HScale) \div 10 + d * (x - 1)),
                                (99 * VScale) \div 100,
                                (7 * VScale) \div 10)]

\* ------------------------------------------------------------------ state
VARIABLES
  devices,    \* per device, the contents of its red/green/blue brightness files
  colours,    \* the list of HSVColour objects, one per device
  effects,    \* the effect objects, by identity
  funstuff,   \* the schedule: list of (effect, nsteps, delay)
  pc,         \* position of fun(): [at, entry, s, dev]
  calls,      \* history: the effect calls made so far, <<"step"|"reset", entry>>
  rounds,     \* history: per device, the number of completed setcolour calls
  fired,      \* history: latch firings of ChristmasEffect in the last step call
  released,   \* history: latch releases of ChristmasEffect in the last step call
  call,       \* a call of one of the module's functions: its name and arguments
  result      \* what that call returned

vars == <<devices, colours, effects, funstuff, pc, calls, rounds, fired, released,
          call, result>>

\* values drawn for random.random()
RandomValues == {0, VScale \div 2}

\* ---------------------------------------------------------------- effects
\* attributes an effect object can carry; list attributes not yet assigned
\* are empty
NoEffect ==
  [kind |-> "Effect",
   dH |-> 0, dS |-> 0, dV |-> 0,
   minS |-> 0, maxS |-> 0, Srange |-> 0,
   minV |-> 0, maxV |-> 0, Vrange |-> 0,
   hues |-> <<>>, stepamp |-> 0, effects |-> <<>>,
   nsteps |-> 0, switched |-> FALSE, V |-> 0, VinitR |-> 0,
   Sinit |-> <<>>, Vinit |-> <<>>, current |-> <<>>,
   switchedA |-> <<>>, stepsize |-> <<>>, steps |-> <<>>]

\* HSVCycleEffect.__init__
HSVCycleEffect(H, S, V, minS, maxS, minV, maxV) ==
  [NoEffect EXCEPT !.kind = "HSVCycleEffect",
                   !.dH = H, !.dS = S, !.dV = V, !.nsteps = 0,
                   !.minS = minS, !.maxS = maxS, !.Srange = maxS - minS,
                   !.minV = minV, !.maxV = maxV, !.Vrange = maxV - minV]

\* CombinedEffects.__init__
CombinedEffects(effs) ==
  [NoEffect EXCEPT !.kind = "CombinedEffects", !.effects = effs]

\* RandomEffect (no __init__ of its own)
RandomEffect == [NoEffect EXCEPT !.kind = "RandomEffect"]

\* ChristmasEffect.__init__
ChristmasEffect(V, minV, maxV, hues) ==
  [NoEffect EXCEPT !.kind = "ChristmasEffect",
                   !.dV = V, !.minV = minV, !.maxV = maxV,
                   !.Vrange = maxV - minV, !.hues = hues,
                   !.nsteps = 0, !.switched = FALSE]

\* ChristmasEffectR.__init__
ChristmasEffectR(V, minV, maxV) ==
  [NoEffect EXCEPT !.kind = "ChristmasEffectR",
                   !.dV = V, !.minV = minV, !.maxV = maxV,
                   !.Vrange = maxV - minV, !.V = maxV, !.VinitR = maxV,
                   !.nsteps = 0, !.switched = FALSE]

\* ChristmasEffectRA.__init__
ChristmasEffectRA(V, minV, maxV, stepamp) ==
  [NoEffect EXCEPT !.kind = "ChristmasEffectRA",
                   !.dV = V, !.minV = minV, !.maxV = maxV,
                   !.Vrange = maxV - minV, !.nsteps = 0,
                   !.switched = FALSE, !.stepamp = stepamp]

\* SpreadResetEffect (no __init__ of its own)
SpreadResetEffect == [NoEffect EXCEPT !.kind = "SpreadResetEffect"]

\* random.random(): the next value of the stream carried by the step
Draw(st) == Head(st.rnd)

Drawn(st) == [st EXCEPT !.rnd = Tail(st.rnd)]

\* random.random() as a hue
AsHue(r) == (r * HScale) \div VScale

\* HSVCycleEffect.step with the "% 1" of the hue update left out
HSVCycleStep_NoWrap(id, st) ==
  LET e0   == st.effs[id]
      cols == st.cols
      e1   == IF e0.nsteps = 0
              THEN [e0 EXCEPT !.Sinit = [i \in 1..Len(cols) |-> Asin(cols[i].S)],
                              !.Vinit = [i \in 1..Len(cols) |-> Asin(cols[i].V)]]
              ELSE e0
      e2   == [e1 EXCEPT !.nsteps = e1.nsteps + 1]
      n    == Min(Len(cols), Min(Len(e2.Sinit), Len(e2.Vinit)))
      new(i) == [H |-> cols[i].H + e2.dH,
                 S |-> Wave(e2.minS, e2.Srange, e2.Sinit[i] + e2.dS * e2.nsteps),
                 V |-> Wave(e2.minV, e2.Vrange, e2.Vinit[i] + e2.dV * e2.nsteps)]
  IN  [st EXCEPT !.effs[id] = e2,
                 !.cols = [i \in 1..Len(cols) |-> IF i <= n THEN new(i) ELSE cols[i]]]

\* HSVCycleEffect.step
HSVCycleStep(id, st) ==
  LET e0   == st.effs[id]
      cols == st.cols
      e1   == IF e0.nsteps = 0
              THEN [e0 EXCEPT !.Sinit = [i \in 1..Len(cols) |-> Asin(cols[i].S)],
                              !.Vinit = [i \in 1..Len(cols) |-> Asin(cols[i].V)]]
              ELSE e0
      e2   == [e1 EXCEPT !.nsteps = e1.nsteps + 1]
      n    == Min(Len(cols), Min(Len(e2.Sinit), Len(e2.Vinit)))
      new(i) == [H |-> Mod1(cols[i].H + e2.dH),
                 S |-> Wave(e2.minS, e2.Srange, e2.Sinit[i] + e2.dS * e2.nsteps),
                 V |-> Wave(e2.minV, e2.Vrange, e2.Vinit[i] + e2.dV * e2.nsteps)]
  IN  [st EXCEPT !.effs[id] = e2,
                 !.cols = [i \in 1..Len(cols) |-> IF i <= n THEN new(i) ELSE cols[i]]]

\* RandomEffect.step: one draw per colour, in list order
RECURSIVE RandomLoop(_, _)
RandomLoop(i, st) ==
  IF i > Len(st.cols) THEN st
  ELSE RandomLoop(i + 1, Drawn([st EXCEPT !.cols[i].H = AsHue(Draw(st))]))

RandomStep(id, st) == RandomLoop(1, st)

\* the palette lookup indexed by the position instead of current[i]
PaletteHues_ByPosition(cols, hues, current) ==
  [j \in 1..Len(cols) |->
     [cols[j] EXCEPT !.H = hues[((j - 1) % Len(hues)) + 1]]]

\* the palette hue of every colour: c.H = hues[current[i] % len(hues)]
PaletteHues(cols, hues, current) ==
  [j \in 1..Len(cols) |->
     [cols[j] EXCEPT !.H = hues[(current[j] % Len(hues)) + 1]]]

\* loop body of ChristmasEffect.step for the i-th (c, V) of zip(colours, Vinit).
\* The inner "for i, c in enumerate(colours)" rebinds the loop variable c, so
\* after a switch the closing "c.V = newV" assigns to the last colour.
RECURSIVE ChristmasLoop(_, _, _)
ChristmasLoop(id, i, st) ==
  LET e    == st.effs[id]
      cols == st.cols
  IN  IF i > Min(Len(cols), Len(e.Vinit)) THEN st
      ELSE
        LET newV == Wave(e.minV, e.Vrange, e.Vinit[i] + e.dV * e.nsteps)
        IN  IF newV > cols[i].V /\ e.switched = FALSE
            THEN LET cur == [j \in 1..Len(e.current) |-> e.current[j] + 1]
                     cs  == PaletteHues(cols, e.hues, cur)
                     c   == Len(cols)
                 IN  ChristmasLoop(id, i + 1,
                       [st EXCEPT !.effs[id].current = cur,
                                  !.effs[id].switched = TRUE,
                                  !.cols = [cs EXCEPT ![c].V = newV],
                                  !.fires = st.fires + 1])
            ELSE IF newV < cols[i].V /\ e.switched = TRUE
            THEN ChristmasLoop(id, i + 1,
                       [st EXCEPT !.effs[id].switched = FALSE,
                                  !.cols[i].V = newV,
                                  !.releases = st.releases + 1])
            ELSE ChristmasLoop(id, i + 1, [st EXCEPT !.cols[i].V = newV])

\* ChristmasEffect.step
ChristmasStep(id, st) ==
  LET e0   == st.effs[id]
      cols == st.cols
      idx  == [i \in 1..Len(cols) |-> i - 1]
      st1  == IF e0.nsteps = 0
              THEN [st EXCEPT !.effs[id].current = idx,
                              !.effs[id].Vinit =
                                 [i \in 1..Len(cols) |-> Asin(cols[i].V)],
                              !.cols = PaletteHues(cols, e0.hues, idx)]
              ELSE st
      st2  == [st1 EXCEPT !.effs[id].nsteps = e0.nsteps + 1]
  IN  ChristmasLoop(id, 1, st2)

\* ChristmasEffect.reset
ChristmasReset(e) == [e EXCEPT !.steps = <<0>>]

\* Effect.reset, inherited by every other effect
EffectReset(e) == e

\* ChristmasEffectR.setrandomhues
setrandomhues(st) ==
  LET cols == st.cols
      dist == HScale \div Len(cols)
      H    == AsHue(Draw(st))
  IN  Drawn([st EXCEPT !.cols = [i \in 1..Len(cols) |->
                         [cols[i] EXCEPT !.H = Mod1(H + dist * (i - 1))]]])

\* ChristmasEffectR.step
ChristmasRStep(id, st) ==
  LET e0   == st.effs[id]
      st1  == IF e0.nsteps = 0
              THEN setrandomhues(
                     [st EXCEPT !.cols = [i \in 1..Len(st.cols) |->
                                   [st.cols[i] EXCEPT !.V = e0.VinitR]]])
              ELSE st
      n    == e0.nsteps + 1
      newV == Wave(e0.minV, e0.Vrange, RadToGrid(e0.VinitR) + e0.dV * n)
      st2  == IF newV > e0.V /\ e0.switched = FALSE
              THEN [setrandomhues(st1) EXCEPT !.effs[id].switched = TRUE]
              ELSE IF newV < e0.V /\ e0.switched = TRUE
              THEN [st1 EXCEPT !.effs[id].switched = FALSE]
              ELSE st1
  IN  [st2 EXCEPT !.effs[id].nsteps = n,
                  !.effs[id].V = newV,
                  !.cols = [i \in 1..Len(st2.cols) |->
                              [st2.cols[i] EXCEPT !.V = newV]]]

\* ChristmasEffectRA.genstepsize
genstepsize(e, r) == VScale - e.stepamp + (r * (2 * e.stepamp)) \div VScale

\* the list comprehensions of the first ChristmasEffectRA.step: one draw per
\* colour for Vinit, then one draw per colour for stepsize
RECURSIVE RAVinit(_, _, _)
RAVinit(id, i, st) ==
  LET e == st.effs[id]
  IN  IF i > Len(st.cols) THEN st
      ELSE RAVinit(id, i + 1,
             Drawn([st EXCEPT !.effs[id].Vinit =
                      Append(e.Vinit,
                             e.minV + (Draw(st) * (e.maxV - e.minV)) \div VScale)]))

RECURSIVE RAStepsize(_, _, _)
RAStepsize(id, i, st) ==
  LET e == st.effs[id]
  IN  IF i > Len(st.cols) THEN st
      ELSE RAStepsize(id, i + 1,
             Drawn([st EXCEPT !.effs[id].stepsize =
                      Append(e.stepsize, genstepsize(e, Draw(st)))]))

\* the loop body with one latch shared by all colours, as in ChristmasEffect
RECURSIVE RALoop_SharedLatch(_, _, _)
RALoop_SharedLatch(id, i, st) ==
  LET e    == st.effs[id]
      cols == st.cols
  IN  IF i > Min(Len(cols), Min(Len(e.Vinit), Len(e.stepsize))) THEN st
      ELSE
        LET newV == Wave(e.minV, e.Vrange,
                         RadToGrid(e.Vinit[i])
                           + RoundDiv(e.dV * e.nsteps * e.stepsize[i], VScale))
        IN  IF newV > cols[i].V /\ e.switchedA[i] = FALSE
            THEN RALoop_SharedLatch(id, i + 1,
                   Drawn([st EXCEPT !.cols[i].H = AsHue(Draw(st)),
                                    !.cols[i].V = newV,
                                    !.effs[id].switchedA =
                                       [j \in DOMAIN e.switchedA |-> TRUE]]))
            ELSE IF newV < cols[i].V /\ e.switchedA[i] = TRUE
            THEN RALoop_SharedLatch(id, i + 1,
                   [st EXCEPT !.cols[i].V = newV,
                              !.effs[id].switchedA =
                                 [j \in DOMAIN e.switchedA |-> FALSE]])
            ELSE RALoop_SharedLatch(id, i + 1, [st EXCEPT !.cols[i].V = newV])

\* loop body of ChristmasEffectRA.step for the i-th (c, V, s)
RECURSIVE RALoop(_, _, _)
RALoop(id, i, st) ==
  LET e    == st.effs[id]
      cols == st.cols
  IN  IF i > Min(Len(cols), Min(Len(e.Vinit), Len(e.stepsize))) THEN st
      ELSE
        LET newV == Wave(e.minV, e.Vrange,
                         RadToGrid(e.Vinit[i])
                           + RoundDiv(e.dV * e.nsteps * e.stepsize[i], VScale))
        IN  IF newV > cols[i].V /\ e.switchedA[i] = FALSE
            THEN RALoop(id, i + 1,
                   Drawn([st EXCEPT !.cols[i].H = AsHue(Draw(st)),
                                    !.cols[i].V = newV,
                                    !.effs[id].switchedA[i] = TRUE]))
            ELSE IF newV < cols[i].V /\ e.switchedA[i] = TRUE
            THEN RALoop(id, i + 1,
                   [st EXCEPT !.cols[i].V = newV,
                              !.effs[id].switchedA[i] = FALSE])
            ELSE RALoop(id, i + 1, [st EXCEPT !.cols[i].V = newV])

\* ChristmasEffectRA.step
ChristmasRAStep(id, st) ==
  LET e0  == st.effs[id]
      st1 == IF e0.nsteps = 0
             THEN LET a == RAVinit(id, 1, [st EXCEPT !.effs[id].Vinit = <<>>])
                      b == [a EXCEPT !.effs[id].switchedA =
                                        [i \in 1..Len(st.cols) |-> FALSE]]
                  IN  RAStepsize(id, 1, [b EXCEPT !.effs[id].stepsize = <<>>])
             ELSE st
  IN  RALoop(id, 1, [st1 EXCEPT !.effs[id].nsteps = e0.nsteps + 1])

\* the chained assignment copying the previous hue without the distance
RECURSIVE SpreadChain_NoOffset(_, _, _)
SpreadChain_NoOffset(i, distance, cols) ==
  IF i >= Len(cols) THEN cols
  ELSE SpreadChain_NoOffset(i + 1, distance,
         [cols EXCEPT ![i + 1] = HSVColour(cols[i].H, cols[i].S, cols[i].V)])

\* the chained assignment of SpreadResetEffect.step over
\* zip(colours[0:-1], colours[1:])
RECURSIVE SpreadChain(_, _, _)
SpreadChain(i, distance, cols) ==
  IF i >= Len(cols) THEN cols
  ELSE SpreadChain(i + 1, distance,
         [cols EXCEPT ![i + 1] = HSVColour(Mod1(cols[i].H + distance),
                                           cols[i].S, cols[i].V)])

\* SpreadResetEffect.step; it reads the module-level list devices, and
\* rcs[0] raises when that list is empty
SpreadResetStep(id, st) ==
  LET cols     == st.cols
      distance == HScale \div Len(cols)
      rcs      == generateSpreadColours(Len(devices), distance)
  IN  IF Len(rcs) = 0
      THEN [st EXCEPT !.err = "IndexError"]
      ELSE [st EXCEPT !.cols = SpreadChain(1, distance,
                                           [cols EXCEPT ![1] = rcs[1]])]

\* effect.step(colours), by the class of the effect; CombinedEffects.step
\* steps its sub-effects in list order on the same colours, up to the first
\* one that raises
RECURSIVE EffectStep(_, _)
\* the loop of CombinedEffects.step run over the list from its end
RECURSIVE CombinedLoop_Reversed(_, _, _)
CombinedLoop_Reversed(id, i, st) ==
  LET n == Len(st.effs[id].effects)
  IN  IF i > n \/ st.err # "" THEN st
      ELSE CombinedLoop_Reversed(id, i + 1,
                                 EffectStep(st.effs[id].effects[n + 1 - i], st))

\* the loop of CombinedEffects.step over self.effects
RECURSIVE CombinedLoop(_, _, _)
CombinedLoop(id, i, st) ==
  IF i > Len(st.effs[id].effects) \/ st.err # "" THEN st
  ELSE CombinedLoop(id, i + 1, EffectStep(st.effs[id].effects[i], st))

EffectStep(id, st) ==
  LET kind == st.effs[id].kind
  IN  CASE kind = "HSVCycleEffect"    -> HSVCycleStep(id, st)
        [] kind = "CombinedEffects"   -> CombinedLoop(id, 1, st)
        [] kind = "RandomEffect"      -> RandomStep(id, st)
        [] kind = "ChristmasEffect"   -> ChristmasStep(id, st)
        [] kind = "ChristmasEffectR"  -> ChristmasRStep(id, st)
        [] kind = "ChristmasEffectRA" -> ChristmasRAStep(id, st)
        [] kind = "SpreadResetEffect" -> SpreadResetStep(id, st)
        [] OTHER                      -> st

\* effect.reset(), by the class of the effect
EffectResetOf(e) ==
  IF e.kind = "ChristmasEffect" THEN ChristmasReset(e) ELSE EffectReset(e)

\* number of random.random() calls one step of the effect can make
RECURSIVE DrawsOf(_, _, _)
RECURSIVE DrawsOfAll(_, _, _, _)
DrawsOfAll(ids, i, effs, k) ==
  IF i > Len(ids) THEN 0
  ELSE DrawsOf(ids[i], effs, k) + DrawsOfAll(ids, i + 1, effs, k)

DrawsOf(id, effs, k) ==
  LET e == effs[id]
  IN  CASE e.kind = "RandomEffect"      -> k
        [] e.kind = "ChristmasEffectR"  -> IF e.nsteps = 0 THEN 2 ELSE 1
        [] e.kind = "ChristmasEffectRA" -> IF e.nsteps = 0 THEN 3 * k ELSE k
        [] e.kind = "CombinedEffects"   -> DrawsOfAll(e.effects, 1, effs, k)
        [] OTHER                        -> 0

\* ------------------------------------------------------------ the inputs
DefaultMin == RoundDiv(VScale, 255)

DefaultMaxV == (7 * VScale) \div 10

Entry(effect, nsteps) == [effect |-> effect, nsteps |-> nsteps, delay |-> 0]

\* the effect objects and the schedules handed to fun()
Setups ==
  { [effects  |-> <<>>, funstuff |-> <<>>],
    [effects  |-> << HSVCycleEffect(HScale \div 10, 0, 0,
                                    DefaultMin, VScale, DefaultMin, VScale) >>,
     funstuff |-> << Entry(1, 5) >>],
    [effects  |-> << HSVCycleEffect(0, 0, 0,
                                    DefaultMin, VScale, DefaultMin, VScale) >>,
     funstuff |-> << Entry(1, 2) >>],
    [effects  |-> << ChristmasEffect(4, DefaultMin, DefaultMaxV,
                                     <<0, HScale \div 2>>) >>,
     funstuff |-> << Entry(1, 3) >>],
    [effects  |-> << ChristmasEffect(4, DefaultMin, DefaultMaxV,
                                     <<0, (3 * HScale) \div 2>>) >>,
     funstuff |-> << Entry(1, 1) >>],
    [effects  |-> << ChristmasEffectRA(6, DefaultMin, DefaultMaxV, VScale \div 2),
                     ChristmasEffect(4, DefaultMin, DefaultMaxV,
                                     <<0, HScale \div 2>>) >>,
     funstuff |-> << Entry(1, 1), Entry(2, 3) >>],
    [effects  |-> << RandomEffect,
                     ChristmasEffectR(4, DefaultMin, DefaultMaxV),
                     SpreadResetEffect,
                     ChristmasEffectRA(4, DefaultMin, DefaultMaxV, VScale \div 2) >>,
     funstuff |-> << Entry(1, 1), Entry(2, 2), Entry(3, 0), Entry(4, 2) >>],
    [effects  |-> << HSVCycleEffect(HScale \div 10, 0, 0,
                                    DefaultMin, VScale, DefaultMin, VScale),
                     HSVCycleEffect(0, 0, 6,
                                    DefaultMin, VScale, VScale \div 100, VScale),
                     CombinedEffects(<<1, 2>>),
                     SpreadResetEffect >>,
     funstuff |-> << Entry(3, 2), Entry(1, 1), Entry(4, 2) >>],
    [effects  |-> << HSVCycleEffect(HScale \div 10, 0, 0,
                                    DefaultMin, VScale, DefaultMin, VScale),
                     ChristmasEffect(6, DefaultMin, DefaultMaxV,
                                     <<0, HScale \div 6, HScale \div 3>>),
                     ChristmasEffectR(6, DefaultMin, DefaultMaxV),
                     ChristmasEffectRA(6, DefaultMin, DefaultMaxV, VScale \div 2) >>,
     funstuff |-> << Entry(1, 1), Entry(2, 2), Entry(3, 1), Entry(4, 1) >> ],
    [effects  |-> << RandomEffect,
                     ChristmasEffectR(4, DefaultMin, DefaultMaxV) >>,
     funstuff |-> << Entry(1, 1), Entry(2, 1) >> ],
    [effects  |-> << ChristmasEffect(4, (8 * VScale) \div 10, VScale,
                                     <<0, HScale \div 2>>) >>,
     funstuff |-> << Entry(1, 2) >> ] }

\* the brightness files of a device before the program has written them
Dark == [red |-> 0, green |-> 0, blue |-> 0]

\* ----------------------------------------------------------------- fun()
\* number of (d, c) pairs of zip(devices, colours)
Pairs == Min(Len(devices), Len(colours))

At(at, entry, s, dev, err) ==
  [at |-> at, entry |-> entry, s |-> s, dev |-> dev, err |-> err]

\* the state when fun(devices, colours, funstuff) is entered from __main__
Start(nd, nc, setup) ==
  /\ devices = [i \in 1..nd |-> Dark]
  /\ colours = generateSpreadColours(nc, HScale \div nc)
  /\ effects = setup.effects
  /\ funstuff = setup.funstuff
  /\ pc = At("init", 0, 0, 1, "")
  /\ calls = <<>>
  /\ rounds = [i \in 1..nd |-> 0]
  /\ fired = 0
  /\ released = 0
  /\ call = [fn |-> "fun", args |-> <<>>, returned |-> FALSE]
  /\ result = <<>>

Init == \E nd \in 1..MaxDevices, setup \in Setups : Start(nd, nd, setup)

\* fun() called with lists of different lengths
InitMismatch ==
  \E nd \in 1..MaxDevices, nc \in 1..MaxDevices, setup \in Setups :
     nd # nc /\ Start(nd, nc, setup)

\* fun() called with any two lists, the device list possibly empty
InitAnyLists ==
  \E nd \in 0..MaxDevices, nc \in 1..MaxDevices, setup \in Setups :
     Start(nd, nc, setup)

InWriteLoop == pc.at \in {"init", "write"} /\ pc.dev <= Pairs

\* what setcolour writes to the three brightness files of a device
Brightness(colour) ==
  [red |-> colour.red, green |-> colour.green, blue |-> colour.blue]

\* setcolour called with the first colour for every device
SetColour_FirstColour ==
  /\ InWriteLoop
  /\ LET colour == getRGBAColour(colours[1])
     IN  /\ colour # Unbound
         /\ devices' = [devices EXCEPT ![pc.dev] = Brightness(colour)]
  /\ rounds' = [rounds EXCEPT ![pc.dev] = @ + 1]
  /\ pc' = [pc EXCEPT !.dev = @ + 1]
  /\ UNCHANGED <<colours, effects, funstuff, calls, fired, released>>
  /\ UNCHANGED <<call, result>>

\* setcolour(d, c.getRGBAColour()) of either write loop, all three files
\* written
SetColour ==
  /\ InWriteLoop
  /\ LET colour == getRGBAColour(colours[pc.dev])
     IN  /\ colour # Unbound
         /\ devices' = [devices EXCEPT ![pc.dev] = Brightness(colour)]
  /\ rounds' = [rounds EXCEPT ![pc.dev] = @ + 1]
  /\ pc' = [pc EXCEPT !.dev = @ + 1]
  /\ UNCHANGED <<colours, effects, funstuff, calls, fired, released>>
  /\ UNCHANGED <<call, result>>

\* the exception of setcolour caught and the device skipped
SetColourRaises_Skipped ==
  /\ InWriteLoop
  /\ LET colour == getRGBAColour(colours[pc.dev])
     IN  /\ colour # Unbound
         /\ \E failing \in {"red", "green", "blue"} :
              devices' = [devices EXCEPT ![pc.dev] =
                [red   |-> IF failing \in {"green", "blue"}
                           THEN colour.red ELSE @.red,
                 green |-> IF failing = "blue" THEN colour.green ELSE @.green,
                 blue  |-> @.blue]]
  /\ pc' = [pc EXCEPT !.dev = @ + 1]
  /\ UNCHANGED <<colours, effects, funstuff, calls, rounds, fired, released>>
  /\ UNCHANGED <<call, result>>

\* setcolour: open() or write() of one of the three files raises; the files
\* before it are already written, the exception leaves fun()
SetColourRaises ==
  /\ InWriteLoop
  /\ LET colour == getRGBAColour(colours[pc.dev])
     IN  /\ colour # Unbound
         /\ \E failing \in {"red", "green", "blue"} :
              devices' = [devices EXCEPT ![pc.dev] =
                [red   |-> IF failing \in {"green", "blue"}
                           THEN colour.red ELSE @.red,
                 green |-> IF failing = "blue" THEN colour.green ELSE @.green,
                 blue  |-> @.blue]]
  /\ pc' = [pc EXCEPT !.at = "raised", !.err = "OSError"]
  /\ UNCHANGED <<colours, effects, funstuff, calls, rounds, fired, released>>
  /\ UNCHANGED <<call, result>>

\* c.getRGBAColour() falls through the if-chain: R, G, B are unbound at the
\* return statement and the exception leaves fun()
GetRGBARaises ==
  /\ InWriteLoop
  /\ getRGBAColour(colours[pc.dev]) = Unbound
  /\ pc' = [pc EXCEPT !.at = "raised", !.err = "UnboundLocalError"]
  /\ UNCHANGED <<devices, colours, effects, funstuff, calls, rounds,
                 fired, released>>
  /\ UNCHANGED <<call, result>>

\* while True: print('starting cycle!!'), entering the for loop over funstuff
StartCycle ==
  /\ \/ pc.at = "init" /\ pc.dev > Pairs
     \/ pc.at = "for" /\ pc.entry > Len(funstuff)
  /\ pc' = At("for", 1, 0, 0, "")
  /\ UNCHANGED <<devices, colours, effects, funstuff, calls, rounds,
                 fired, released>>
  /\ UNCHANGED <<call, result>>

\* the inner loop running range(nsteps + 1)
Step_OneMore ==
  /\ pc.at = "for" /\ pc.entry <= Len(funstuff)
  /\ pc.s <= funstuff[pc.entry].nsteps
  /\ Len(calls) < MaxCalls
  /\ LET id == funstuff[pc.entry].effect
     IN  \E rnd \in [1..DrawsOf(id, effects, Len(colours)) -> RandomValues] :
           LET st == EffectStep(id, [effs |-> effects, cols |-> colours,
                                     rnd |-> rnd, fires |-> 0, releases |-> 0,
                                     err |-> ""])
           IN  /\ effects' = st.effs
               /\ colours' = st.cols
               /\ fired' = st.fires
               /\ released' = st.releases
               /\ pc' = IF st.err = ""
                        THEN [pc EXCEPT !.at = "write", !.dev = 1]
                        ELSE [pc EXCEPT !.at = "raised", !.err = st.err]
  /\ calls' = Append(calls, <<"step", pc.entry>>)
  /\ UNCHANGED <<devices, funstuff, rounds>>
  /\ UNCHANGED <<call, result>>

\* effect.step(colours) of the inner loop; an exception of the step leaves
\* fun()
Step ==
  /\ pc.at = "for" /\ pc.entry <= Len(funstuff)
  /\ pc.s < funstuff[pc.entry].nsteps
  /\ Len(calls) < MaxCalls
  /\ LET id == funstuff[pc.entry].effect
     IN  \E rnd \in [1..DrawsOf(id, effects, Len(colours)) -> RandomValues] :
           LET st == EffectStep(id, [effs |-> effects, cols |-> colours,
                                     rnd |-> rnd, fires |-> 0, releases |-> 0,
                                     err |-> ""])
           IN  /\ effects' = st.effs
               /\ colours' = st.cols
               /\ fired' = st.fires
               /\ released' = st.releases
               /\ pc' = IF st.err = ""
                        THEN [pc EXCEPT !.at = "write", !.dev = 1]
                        ELSE [pc EXCEPT !.at = "raised", !.err = st.err]
  /\ calls' = Append(calls, <<"step", pc.entry>>)
  /\ UNCHANGED <<devices, funstuff, rounds>>
  /\ UNCHANGED <<call, result>>

\* time.sleep(delay) after the write loop, and the next s of range(nsteps)
Sleep ==
  /\ pc.at = "write" /\ pc.dev > Pairs
  /\ pc' = [pc EXCEPT !.at = "for", !.s = @ + 1, !.dev = 0]
  /\ UNCHANGED <<devices, colours, effects, funstuff, calls, rounds,
                 fired, released>>
  /\ UNCHANGED <<call, result>>

\* effect.reset() after the inner loop, and the next entry of funstuff
Reset ==
  /\ pc.at = "for" /\ pc.entry <= Len(funstuff)
  /\ pc.s >= funstuff[pc.entry].nsteps
  /\ Len(calls) < MaxCalls
  /\ effects' = [effects EXCEPT ![funstuff[pc.entry].effect] = EffectResetOf(@)]
  /\ calls' = Append(calls, <<"reset", pc.entry>>)
  /\ pc' = [pc EXCEPT !.entry = @ + 1, !.s = 0]
  /\ UNCHANGED <<devices, colours, funstuff, rounds, fired, released>>
  /\ UNCHANGED <<call, result>>

Next ==
  \/ SetColour
  \/ SetColourRaises
  \/ GetRGBARaises
  \/ StartCycle
  \/ Step
  \/ Sleep
  \/ Reset

Spec == Init /\ [][Next]_vars

SpecMismatch == InitMismatch /\ [][Next]_vars

SpecAnyLists == InitAnyLists /\ [][Next]_vars

\* ------------------------------------------- the functions called alone
\* arguments of a call of generateSpreadColours(k, distance)
SpreadCalls ==
  {[fn |-> "generateSpreadColours", args |-> <<k, d>>, returned |-> FALSE] :
     k \in 0..MaxSpread, d \in (-HScale)..HScale}

\* H, S, V of a colour whose getRGBAColour() is called; H also outside [0, 1)
RGBACalls ==
  {[fn |-> "getRGBAColour", args |-> <<H, S, V>>, returned |-> FALSE] :
     H \in (-HScale)..(2 * HScale),
     S \in {0, VScale \div 2, (99 * VScale) \div 100, VScale},
     V \in {0, VScale \div 2, (7 * VScale) \div 10, VScale}}

InitPure ==
  /\ devices = <<>> /\ colours = <<>> /\ effects = <<>> /\ funstuff = <<>>
  /\ pc = At("idle", 0, 0, 0, "")
  /\ calls = <<>> /\ rounds = <<>> /\ fired = 0 /\ released = 0
  /\ call \in SpreadCalls \cup RGBACalls
  /\ result = <<>>

\* generateSpreadColours(k, distance) returns
CallGenerateSpreadColours ==
  /\ call.fn = "generateSpreadColours" /\ ~call.returned
  /\ result' = generateSpreadColours(call.args[1], call.args[2])
  /\ call' = [call EXCEPT !.returned = TRUE]
  /\ UNCHANGED <<devices, colours, effects, funstuff, pc, calls, rounds,
                 fired, released>>

\* HSVColour(H, S, V).getRGBAColour() returns, or raises when R, G, B are
\* unbound
CallGetRGBAColour ==
  /\ call.fn = "getRGBAColour" /\ ~call.returned
  /\ result' = getRGBAColour(HSVColour(call.args[1], call.args[2], call.args[3]))
  /\ call' = [call EXCEPT !.returned = TRUE]
  /\ UNCHANGED <<devices, colours, effects, funstuff, pc, calls, rounds,
                 fired, released>>

NextPure ==
  \/ CallGenerateSpreadColours
  \/ CallGetRGBAColour

SpecPure == InitPure /\ [][NextPure]_vars

\* ------------------------------------------------------------- properties
\* number of step calls made so far
NSteps == Cardinality({i \in DOMAIN calls : calls[i][1] = "step"})

\* the effect object of the last call
LastEffect == effects[funstuff[calls[Len(calls)][2]].effect]

MemoryKinds ==
  {"HSVCycleEffect", "ChristmasEffect", "ChristmasEffectR", "ChristmasEffectRA"}

\* C1: after reset() of an effect that keeps memory, its step counter is 0
\* again (so the next step re-runs the lazy initialisation).
C1_ResetClearsStepCounter ==
  (calls # <<>> /\ calls[Len(calls)][1] = "reset"
     /\ LastEffect.kind \in MemoryKinds)
  => LastEffect.nsteps = 0

\* the first n calls the schedule prescribes, from position (entry, s)
RECURSIVE ExpectedCalls(_, _, _)
ExpectedCalls(entry, s, n) ==
  IF n = 0 \/ funstuff = <<>> THEN <<>>
  ELSE IF s < funstuff[entry].nsteps
  THEN <<(<<"step", entry>>)>> \o ExpectedCalls(entry, s + 1, n - 1)
  ELSE <<(<<"reset", entry>>)>>
         \o ExpectedCalls((entry % Len(funstuff)) + 1, 0, n - 1)

\* C2: the effect calls made by fun are, in order, stepCount steps then one
\* reset for each schedule entry in list order, wrapping around.
C2_CallOrder == calls = ExpectedCalls(1, 0, Len(calls))

C2_Witness ==
  /\ \E i \in 1..(Len(calls) - 1) :
       /\ calls[i] = <<"reset", Len(funstuff)>>
       /\ calls[i + 1] = <<"step", 1>>
  /\ \E i \in 2..Len(calls) :
       /\ calls[i][1] = "reset"
       /\ funstuff[calls[i][2]].nsteps = 0
       /\ calls[i - 1][2] # calls[i][2]

\* C3: outside a write round every device shows the conversion of the
\* colour at its own position and has been written once per step plus once
\* initially; inside a round the devices before the loop position are
\* written for this round and the others not yet.
C3_WritesFollowSteps ==
  /\ Len(devices) = Len(colours)
  /\ pc.at # "raised" =>
       \A i \in 1..Len(devices) :
         LET done == \/ pc.at = "for"
                     \/ pc.at \in {"init", "write"} /\ i < pc.dev
             base == IF pc.at = "init" THEN 0 ELSE NSteps
         IN  IF done
             THEN /\ devices[i] = Brightness(getRGBAColour(colours[i]))
                  /\ rounds[i] = (IF pc.at = "init" THEN 1 ELSE NSteps + 1)
             ELSE rounds[i] = base

C3_Witness ==
  /\ pc.at = "for"
  /\ NSteps >= 2
  /\ Len(devices) >= 2
  /\ devices[1] # devices[2]

\* C4: fun terminates only when a device write fails.
C4_TerminatesOnlyOnWriteFailure == pc.at = "raised" => pc.err = "OSError"

\* C5: every colour's H is in [0, 1).
C5_HueInUnitInterval ==
  \A i \in 1..Len(colours) : 0 <= colours[i].H /\ colours[i].H < HScale

\* C6: after an exception fun does nothing more; device files change without
\* a completed setcolour only when fun raises; the write loop passes a device
\* only when all three of its files have been written.
C6_WriteFailureIsFatal ==
  [][ /\ pc.at # "raised"
      /\ (rounds' = rounds /\ devices' # devices) => pc'.at = "raised"
      /\ (pc.at \in {"init", "write"} /\ pc'.at = pc.at /\ pc'.dev = pc.dev + 1)
           => /\ pc.dev <= Len(devices)
              /\ devices'[pc.dev] = Brightness(getRGBAColour(colours[pc.dev]))
              /\ rounds'[pc.dev] = rounds[pc.dev] + 1 ]_vars

C6_Witness ==
  /\ pc.at = "raised" /\ pc.err = "OSError"
  /\ NSteps >= 1
  /\ devices[pc.dev].red = getRGBAColour(colours[pc.dev]).red
  /\ devices[pc.dev].blue # getRGBAColour(colours[pc.dev]).blue

\* C7: with device and colour lists of different lengths fun stops with an
\* error before it writes a device or calls an effect.
C7_LengthMismatchFailsFast ==
  Len(devices) # Len(colours)
  => /\ pc.at \in {"init", "raised"}
     /\ calls = <<>>
     /\ \A i \in 1..Len(devices) : rounds[i] = 0 /\ devices[i] = Dark

\* the run has the single schedule entry HSVCycleEffect(dH, 0, 0)
HueCycleRun ==
  /\ Len(funstuff) = 1
  /\ effects[funstuff[1].effect].kind = "HSVCycleEffect"
  /\ effects[funstuff[1].effect].dS = 0
  /\ effects[funstuff[1].effect].dV = 0

InitialColours == generateSpreadColours(Len(colours), HScale \div Len(colours))

\* C8: with dH = dS = dV = 0 every colour keeps the H, S and V it had before
\* the first step.
C8_ZeroCycleIsIdentity ==
  (HueCycleRun /\ effects[funstuff[1].effect].dH = 0)
  => colours = InitialColours

\* effect id is a ChristmasEffect with hues = [0, 0.5] on two devices
TwoHueChristmas(id) ==
  /\ Len(colours) = 2
  /\ effects[id].kind = "ChristmasEffect"
  /\ effects[id].hues = <<0, HScale \div 2>>

\* this step of fun is a step call of the schedule entry's effect id
StepCallOn(id) ==
  /\ Len(calls') = Len(calls) + 1
  /\ calls'[Len(calls')][1] = "step"
  /\ funstuff[calls'[Len(calls')][2]].effect = id

\* palette index of colour i before the step (the first step assigns i - 1)
IndexBefore(id, i) ==
  IF effects[id].nsteps = 0 THEN i - 1 ELSE effects[id].current[i]

\* every firing of the latch advances each palette index by exactly 1 and
\* sets each hue to the other palette entry
FiringAdvancesByOne(id) ==
  /\ fired' <= 1
  /\ \A i \in 1..Len(colours) :
       /\ effects'[id].current[i] = IndexBefore(id, i) + fired'
       /\ fired' = 1 =>
            /\ colours'[i].H = effects[id].hues[((IndexBefore(id, i) + 1) % 2) + 1]
            /\ colours'[i].H # effects[id].hues[(IndexBefore(id, i) % 2) + 1]

\* C9 as stated: a ChristmasEffect step with hues = [0, 0.5] on 2 devices
\* advances every palette index by 1 per latch firing, and changes a hue
\* only when the latch fires.
C9_HueChangesOnlyOnFiring ==
  [][ \A id \in DOMAIN effects :
        (TwoHueChristmas(id) /\ StepCallOn(id))
        => /\ FiringAdvancesByOne(id)
           /\ \A i \in 1..Len(colours) :
                colours'[i].H # colours[i].H => fired' = 1 ]_vars

\* C9 amended: as above, but a hue may also change on the first step of the
\* effect, which assigns the palette hues.
C9_HueChangesOnFiringOrFirstStep ==
  [][ \A id \in DOMAIN effects :
        (TwoHueChristmas(id) /\ StepCallOn(id))
        => /\ FiringAdvancesByOne(id)
           /\ \A i \in 1..Len(colours) :
                colours'[i].H # colours[i].H
                  => fired' = 1 \/ effects[id].nsteps = 0 ]_vars

\* the latch has fired once and released once, and the hues are swapped
C9_Witness ==
  \E id \in DOMAIN effects :
    /\ TwoHueChristmas(id)
    /\ effects[id].nsteps > 0
    /\ effects[id].current = <<1, 2>>
    /\ effects[id].switched = FALSE
    /\ released = 1
    /\ colours[1].H = HScale \div 2 /\ colours[2].H = 0

\* C10: with the schedule [(HSVCycleEffect(dH, 0, 0), n, 0)], after k step
\* calls each device's H is (initial H + k * dH) mod 1.
C10_HueAfterKSteps ==
  HueCycleRun
  => \A i \in 1..Len(colours) :
       colours[i].H =
         Mod1(InitialColours[i].H + NSteps * effects[funstuff[1].effect].dH)

C10_Witness ==
  /\ HueCycleRun
  /\ effects[funstuff[1].effect].dH = HScale \div 10
  /\ NSteps = 10
  /\ \A i \in 1..Len(colours) : colours[i].H = InitialColours[i].H
  /\ \E i \in 1..Len(calls) : calls[i][1] = "reset"

\* the last call was a step of a SpreadResetEffect scheduled by itself
AfterSpreadReset ==
  /\ calls # <<>>
  /\ calls[Len(calls)][1] = "step"
  /\ LastEffect.kind = "SpreadResetEffect"

\* colour i (0-based) has H = (0.6 + i/K) mod 1, S = 0.99, V = 0.7
EvenSpread ==
  LET K == Len(colours)
  IN  /\ \A i \in 1..K :
           /\ colours[i].H = Mod1((6 * HScale) \div 10 + ((i - 1) * HScale) \div K)
           /\ colours[i].S = (99 * VScale) \div 100
           /\ colours[i].V = (7 * VScale) \div 10
      /\ \A i \in 1..(K - 1) :
           Mod1(colours[i + 1].H - colours[i].H) = Mod1(HScale \div K)

\* C11 as stated: after a SpreadResetEffect step the colours are the even
\* spread from 0.6, whatever the number of devices.
C11_SpreadWhateverDevices == AfterSpreadReset => EvenSpread

\* C11 amended: the same when at least one device was discovered; then a
\* second step leaves the colours as they are.
C11_SpreadWithSomeDevice ==
  (AfterSpreadReset /\ Len(devices) >= 1) => EvenSpread

\* two SpreadResetEffect steps in a row, after other effects changed the
\* colours, with a device count different from the colour count
C11_Witness ==
  /\ Len(calls) >= 3
  /\ AfterSpreadReset
  /\ calls[Len(calls) - 1] = calls[Len(calls)]
  /\ calls[Len(calls) - 2][1] = "reset"
  /\ Len(colours) >= 2
  /\ Len(devices) >= 1
  /\ Len(devices) # Len(colours)
  /\ EvenSpread

\* generateSpreadColours(k, distance) has returned
SpreadReturned == call.fn = "generateSpreadColours" /\ call.returned

\* the result has k colours, the i-th (0-based) with H = (0.6 + D*i) mod 1,
\* S = 0.99, V = 0.7
SpreadResultAsStated ==
  LET k == call.args[1]
      D == call.args[2]
  IN  /\ Len(result) = k
      /\ \A i \in 1..k :
           /\ result[i].H = ((6 * HScale) \div 10 + D * (i - 1)) % HScale
           /\ result[i].S = (99 * VScale) \div 100
           /\ result[i].V = (7 * VScale) \div 10
      /\ (k = 5 /\ D = HScale \div 5)
           => [i \in 1..k |-> result[i].H] = <<36, 48, 0, 12, 24>>
      /\ k = 0 => result = <<>>

\* C12 as stated: for every distance D the result is the spread by D.
C12_SpreadByAnyDistance == SpreadReturned => SpreadResultAsStated

\* C12 amended: for every distance D other than -1, which selects the
\* distance 2/(1+sqrt(5)).
C12_SpreadByExplicitDistance ==
  (SpreadReturned /\ call.args[2] # -HScale) => SpreadResultAsStated

C12_Witness ==
  /\ SpreadReturned
  /\ call.args = <<5, HScale \div 5>>
  /\ [i \in 1..5 |-> result[i].H] = <<36, 48, 0, 12, 24>>

\* getRGBAColour() of a colour with S = V = 1 and H in [0, 1) has returned
PureHueReturned ==
  /\ call.fn = "getRGBAColour" /\ call.returned
  /\ call.args[1] >= 0 /\ call.args[1] < HScale
  /\ call.args[2] = VScale /\ call.args[3] = VScale

\* the channels of the result that hold v
ChannelsAt(v) ==
  {ch \in {"red", "green", "blue"} : result[ch] = v}

\* C13 as stated: a pure hue gives exactly one channel at 255 and at least
\* one other at 0.
C13_ExactlyOneFullChannel ==
  PureHueReturned
  => Cardinality(ChannelsAt(255)) = 1 /\ Cardinality(ChannelsAt(0)) >= 1

\* C13 amended: a pure hue gives at least one channel at 255 and at least
\* one at 0; exactly one channel is at 255, except at H = 1/6, 1/2, 5/6
\* where two channels are at 255 and the third at 0.
C13_OneOrTwoFullChannels ==
  PureHueReturned
  => LET H   == call.args[1]
         odd == (6 * H) % HScale = 0 /\ ((6 * H) \div HScale) % 2 = 1
     IN  /\ Cardinality(ChannelsAt(0)) >= 1
         /\ Cardinality(ChannelsAt(255)) = (IF odd THEN 2 ELSE 1)

C13_Witness ==
  /\ PureHueReturned
  /\ call.args[1] = HScale \div 2
  /\ result = Colour(0, 255, 255)

\* C14: getRGBAColour fails for H outside [0, 1); for H in [0, 1) and S, V in
\* [0, 1] it returns integer channels in [0, 255] and alpha 255.
C14_OutOfRangeHueFails ==
  (call.fn = "getRGBAColour" /\ call.returned)
  => IF call.args[1] < 0 \/ call.args[1] >= HScale
     THEN result = Unbound
     ELSE /\ result # Unbound
          /\ \A ch \in {"red", "green", "blue"} : result[ch] \in 0..255
          /\ result.alpha = 255

\* the last call was a step of ChristmasEffect id, scheduled by itself
AfterChristmasStep(id) ==
  /\ calls # <<>>
  /\ calls[Len(calls)][1] = "step"
  /\ funstuff[calls[Len(calls)][2]].effect = id
  /\ effects[id].kind = "ChristmasEffect"

\* C15: after the n-th ChristmasEffect.step every device's V is
\* minV + (maxV - minV) * (1 + sin(phase_i + dV * n)) / 2, with phase_i the
\* arcsin of the device's V at the first step.
C15_EveryDeviceOnItsSinusoid ==
  \A id \in DOMAIN effects :
    AfterChristmasStep(id)
    => \A i \in 1..Len(colours) :
         colours[i].V = Wave(effects[id].minV, effects[id].Vrange,
                             effects[id].Vinit[i]
                               + effects[id].dV * effects[id].nsteps)

\* 1 for a set latch, 0 for a released one
Latched(b) == IF b THEN 1 ELSE 0

\* what one ChristmasEffect step does to the palette indices and the latch:
\* the indices stay in lockstep and advance once per firing, and a firing
\* on a set latch needs a release first
LockstepAdvance(id) ==
  /\ \A i \in 1..Len(colours) :
       /\ effects'[id].current[i] = IndexBefore(id, i) + fired'
       /\ effects'[id].current[i] - (i - 1) = effects'[id].current[1]
  /\ fired' - released' = Latched(effects'[id].switched) - Latched(effects[id].switched)

\* C16 as stated: the palette indices stay in lockstep, one step call
\* advances them by at most 1, and a release lies between two advances.
C16_AtMostOneAdvancePerStep ==
  [][ \A id \in DOMAIN effects :
        (effects[id].kind = "ChristmasEffect" /\ StepCallOn(id))
        => LockstepAdvance(id) /\ fired' <= 1 ]_vars

\* the last call was a step of ChristmasEffectRA id
AfterRAStep(id) ==
  /\ calls # <<>>
  /\ calls[Len(calls)][1] = "step"
  /\ funstuff[calls[Len(calls)][2]].effect = id
  /\ effects[id].kind = "ChristmasEffectRA"

\* latch of colour i before a ChristmasEffectRA step; the first step starts
\* from latches that are all released
LatchBefore(id, i) ==
  IF effects[id].nsteps = 0 THEN FALSE ELSE effects[id].switchedA[i]

\* the V that this step of ChristmasEffectRA id computes for colour i, from
\* colour i's own phase and step size
OwnNewV(id, i) ==
  LET e == effects'[id]
  IN  Wave(e.minV, e.Vrange,
           RadToGrid(e.Vinit[i]) + RoundDiv(e.dV * e.nsteps * e.stepsize[i], VScale))

\* the latch of colour i after the step, told from colour i alone
OwnLatchAfter(id, i) ==
  IF OwnNewV(id, i) > colours[i].V /\ ~LatchBefore(id, i) THEN TRUE
  ELSE IF OwnNewV(id, i) < colours[i].V /\ LatchBefore(id, i) THEN FALSE
  ELSE LatchBefore(id, i)

\* C17: in a ChristmasEffectRA step colour i's H changes only if its own
\* latch goes from released to latched (new V above previous V), latch i is
\* released only if colour i's new V is below its previous V, and what
\* happens to colour i (H kept or redrawn, latch, V) depends on colour i
\* alone, not on the other colours.
C17_PerDeviceLatch ==
  [][ \A id \in DOMAIN effects :
        (effects[id].kind = "ChristmasEffectRA" /\ StepCallOn(id))
        => \A i \in 1..Len(colours) :
             /\ colours'[i].H # colours[i].H
                => /\ ~LatchBefore(id, i) /\ effects'[id].switchedA[i]
                   /\ OwnNewV(id, i) > colours[i].V
             /\ (LatchBefore(id, i) /\ ~effects'[id].switchedA[i])
                => OwnNewV(id, i) < colours[i].V
             /\ effects'[id].switchedA[i] = OwnLatchAfter(id, i)
             /\ (effects'[id].switchedA[i] = LatchBefore(id, i))
                => colours'[i].H = colours[i].H
             /\ colours'[i].V = OwnNewV(id, i)
             /\ colours'[i].S = colours[i].S ]_vars

\* after a later ChristmasEffectRA step one colour is latched on a hue
\* drawn by the effect while another colour is released
C17_Witness ==
  \E id \in DOMAIN effects :
    /\ AfterRAStep(id)
    /\ effects[id].nsteps >= 2
    /\ \E i, j \in 1..Len(colours) :
         /\ effects[id].switchedA[i] /\ ~effects[id].switchedA[j]
         /\ colours[i].H = AsHue(VScale \div 2)
         /\ colours[j].H # colours[i].H

\* the last call was a step of ChristmasEffectR id
AfterRStep(id) ==
  /\ calls # <<>>
  /\ calls[Len(calls)][1] = "step"
  /\ funstuff[calls[Len(calls)][2]].effect = id
  /\ effects[id].kind = "ChristmasEffectR"

\* C18: after every ChristmasEffectR.step of the driver, in the first pass
\* and in every later pass, all K colours have the effect's shared V and
\* colour i's H is (colour 0's H + i / K) mod 1.
C18_SharedVAndEvenHues ==
  \A id \in DOMAIN effects :
    AfterRStep(id)
    => \A i \in 1..Len(colours) :
         /\ colours[i].V = effects[id].V
         /\ colours[i].H = Mod1(colours[1].H + (i - 1) * (HScale \div Len(colours)))

\* the step methods of the effects ids called one after the other, in list
\* order, on the same colours
RECURSIVE StepsInOrder(_, _)
StepsInOrder(ids, st) ==
  IF ids = <<>> THEN st
  ELSE StepsInOrder(Tail(ids), EffectStep(Head(ids), st))

\* this step of fun is the reset call of the schedule entry's effect id
ResetCallOn(id) ==
  /\ Len(calls') = Len(calls) + 1
  /\ calls'[Len(calls')][1] = "reset"
  /\ funstuff[calls'[Len(calls')][2]].effect = id

\* C19: CombinedEffects.step steps each sub-effect exactly once, in list
\* order, on the same colours, so the result is that of the sub-effects'
\* steps applied one after the other; CombinedEffects.reset leaves every
\* sub-effect's state unchanged.
C19_CombinedStepsInOrder ==
  [][ \A id \in DOMAIN effects :
        effects[id].kind = "CombinedEffects"
        => /\ StepCallOn(id)
              => /\ \E rnd \in [1..DrawsOf(id, effects, Len(colours)) -> RandomValues] :
                      LET st == StepsInOrder(effects[id].effects,
                                  [effs |-> effects, cols |-> colours, rnd |-> rnd,
                                   fires |-> 0, releases |-> 0, err |-> ""])
                      IN  effects' = st.effs /\ colours' = st.cols
                 /\ \A k \in 1..Len(effects[id].effects) :
                      effects'[effects[id].effects[k]].nsteps
                        = effects[effects[id].effects[k]].nsteps + 1
           /\ ResetCallOn(id)
              => \A k \in 1..Len(effects[id].effects) :
                   effects'[effects[id].effects[k]] = effects[effects[id].effects[k]] ]_vars

\* a CombinedEffects of two sub-effects has been stepped twice and then
\* reset, and both sub-effects still hold their step counters and phases
C19_Witness ==
  /\ calls # <<>>
  /\ calls[Len(calls)][1] = "reset"
  /\ LastEffect.kind = "CombinedEffects"
  /\ Len(LastEffect.effects) = 2
  /\ \A k \in 1..2 :
       /\ effects[LastEffect.effects[k]].nsteps = 2
       /\ Len(effects[LastEffect.effects[k]].Vinit) = Len(colours)
  /\ effects[LastEffect.effects[1]].Vinit # effects[LastEffect.effects[2]].Vinit

\* the last call was a step of effect id, scheduled by itself
AfterStepOf(id) ==
  /\ calls # <<>>
  /\ calls[Len(calls)][1] = "step"
  /\ funstuff[calls[Len(calls)][2]].effect = id

\* C20: after every step of an HSVCycleEffect every colour has S in
\* [minS, maxS] and V in [minV, maxV]; after every step of a ChristmasEffect,
\* ChristmasEffectR or ChristmasEffectRA every colour has V in [minV, maxV],
\* whatever S and V the colours had before.
C20_WithinConfiguredBounds ==
  \A id \in DOMAIN effects :
    AfterStepOf(id)
    => LET e == effects[id]
       IN  /\ e.kind = "HSVCycleEffect"
              => \A i \in 1..Len(colours) :
                   /\ e.minS <= colours[i].S /\ colours[i].S <= e.maxS
                   /\ e.minV <= colours[i].V /\ colours[i].V <= e.maxV
           /\ e.kind \in {"ChristmasEffect", "ChristmasEffectR", "ChristmasEffectRA"}
              => \A i \in 1..Len(colours) :
                   e.minV <= colours[i].V /\ colours[i].V <= e.maxV

====
